---- MODULE Spec2Model ----
(***************************************************************************)
(* Voice presence maintainer of src/main.py.                               *)
(*                                                                         *)
(* The bot runs on one asyncio event loop: a coroutine runs without        *)
(* interruption until it reaches an await that suspends (asyncio.sleep,    *)
(* vc.move_to, channel.connect).  `running` names the task that holds the  *)
(* loop; every other task can only be resumed while running = NoTask.      *)
(* Awaiting try_connect_with_backoff itself does not suspend: the callee   *)
(* runs inline in the caller's task.                                       *)
(***************************************************************************)
EXTENDS Integers, FiniteSets, Sequences, TLC

\* Number of on_voice_state_update handler tasks that may be alive at once.
NumHandlers == 1

\* ---------------- configuration ----------------
GUILD_ID == 1
VC_CHANNEL_ID == 10
max_attempts == 8
base_sleep == 2
MaxSleep == 60
None == 0

\* A voice channel of the guild that is not the configured one.
OtherChannel == VC_CHANNEL_ID + 1
Channels == {VC_CHANNEL_ID, OtherChannel}

\* ---------------- tasks ----------------
NoTask == <<"none", 0>>
Tick == <<"ensure_voice_task", 0>>
Ready == <<"on_ready", 0>>
InitialConnect == <<"initial_connect", 0>>
ForceJoin == <<"forcejoin", 0>>
Handlers == {<<"on_voice_state_update", i>> : i \in 1..NumHandlers}
Callers == {Tick, InitialConnect, ForceJoin} \cup Handlers
Tasks == Callers \cup {Ready}

VARIABLES
    pc,                  \* position of every task
    running,             \* the task holding the event loop, or NoTask
    closed,              \* the process is shutting down: tasks are being cancelled
    voice_lock,          \* holder of voice_lock, or NoTask
    _connecting_guilds,  \* the module-level set
    voice_client,        \* the guild's entry of bot.voice_clients
    guild_found,         \* bot.get_guild(GUILD_ID) is not None
    channel_found,       \* guild.get_channel(VC_CHANNEL_ID) is not None
    event,               \* (member, before, after) a handler is filtering
    attempt,             \* local `attempt` of the sequence inside the lock
    sleep_for,           \* local `sleep_for` of the sequence inside the lock
    outcome,             \* how the sequence inside the lock left its loop
    requests,            \* connect/move/sleep calls issued by the sequence
    entered_elsewhere,   \* the sequence was entered with the handle live off target
    reconnect,           \* reconnect mode of the sequence's connect requests: the
                         \* library's default (True) until a call passes its own
    connect_result,      \* how the sequence's latest connect call ended
    last_gave_up,        \* the sequence that ended last hit the attempt ceiling
    dropped              \* a call was skipped since the sequence in progress last
                         \* inspected the handle

vars == <<pc, running, closed, voice_lock, _connecting_guilds, voice_client,
          guild_found, channel_found, event, attempt, sleep_for, outcome,
          requests, entered_elsewhere, reconnect, connect_result, last_gave_up,
          dropped>>

\* Groups of variables the actions leave alone together.
world == <<closed, voice_client, guild_found, channel_found>>
serializer == <<voice_lock, _connecting_guilds>>
frame == <<attempt, sleep_for, outcome, requests, entered_elsewhere, reconnect,
           connect_result>>
history == <<last_gave_up, dropped>>

\* ---------------- the voice client handle ----------------
Absent == [present |-> FALSE, connected |-> FALSE, channel |-> None]
Stale == [present |-> TRUE, connected |-> FALSE, channel |-> None]
Live(c) == [present |-> TRUE, connected |-> TRUE, channel |-> c]
VoiceStates == {Absent, Stale} \cup {Live(c) : c \in Channels}

\* vc and vc.is_connected()
IsLive(vc) == vc.present /\ vc.connected

\* vc and vc.is_connected() and getattr(vc.channel, "id", None) == channel_id
OnChannel(vc, channel_id) == IsLive(vc) /\ vc.channel = channel_id

\* ---------------- notifications ----------------
BotUser == "bot"
Members == {BotUser, "someone"}
NoEvent == [member |-> "none", before |-> None, after |-> None]
Events == [member : Members, before : Channels \cup {None}, after : Channels \cup {None}]

\* before.channel is not None and after.channel is None
IsDisconnect(e) == e.before # None /\ e.after = None

\* ---------------- positions ----------------
\* Suspended inside the guarded section of try_connect_with_backoff.
SeqAwaits == {"tc_move", "tc_connect", "tc_sleep"}
\* Inside `async with voice_lock` (after the lock is taken, before it is released).
Guarded == {"tc_loop", "tc_resolve", "tc_inspect", "tc_finally"} \cup SeqAwaits
\* Every suspension point of the program.
Awaits == SeqAwaits \cup {"tc_wait", "tick_sleep", "ready_sleep", "debounce_10",
                        "debounce_2", "scheduled"}

NoRequests == [connect |-> 0, move |-> 0, sleep |-> 0]

Init ==
    /\ pc = [t \in Tasks |-> IF t = Tick THEN "off" ELSE "idle"]
    /\ running = NoTask
    /\ closed = FALSE
    /\ voice_lock = NoTask
    /\ _connecting_guilds = {}
    /\ voice_client = Absent
    /\ guild_found \in BOOLEAN
    /\ channel_found \in BOOLEAN
    /\ event = [h \in Handlers |-> NoEvent]
    /\ attempt = 0
    /\ sleep_for = 0
    /\ outcome = "none"
    /\ requests = NoRequests
    /\ entered_elsewhere = FALSE
    /\ reconnect = TRUE
    /\ connect_result = "none"
    /\ last_gave_up = FALSE
    /\ dropped = FALSE

\* ---------------- helpers of try_connect_with_backoff ----------------
\* gid in _connecting_guilds, with the check left out
InProgressNever(gid) == FALSE

\* gid in _connecting_guilds
InProgress(gid) == gid \in _connecting_guilds

\* The target_channel argument of the call made by task t (None when omitted).
TargetChannelArg(t) == IF t = ForceJoin THEN VC_CHANNEL_ID ELSE None

\* guild.get_channel(VC_CHANNEL_ID)
GetChannel == IF channel_found THEN VC_CHANNEL_ID ELSE None

\* channel = target_channel if target_channel is not None else guild.get_channel(...)
ResolveChannel(t) ==
    IF TargetChannelArg(t) # None THEN TargetChannelArg(t) ELSE GetChannel

\* attempt > max_attempts, off by one
CeilingOffByOne(a) == a > max_attempts + 1

\* attempt > max_attempts
CeilingReached(a) == a > max_attempts

\* sleep_for without the cap
SleepForUncapped(a) == base_sleep * (2 ^ (a - 1))

\* sleep_for = base_sleep * (2 ** (attempt - 1)); if sleep_for > 60: sleep_for = 60
SleepFor(a) ==
    LET s == base_sleep * (2 ^ (a - 1))
    IN  IF s > MaxSleep THEN MaxSleep ELSE s

\* the finally block without the discard
DiscardNothing(s, gid) == s

\* _connecting_guilds.discard(gid)
Discard(s, gid) == s \ {gid}

\* Where a task goes when its call of try_connect_with_backoff returns.
AfterCall(t) == IF t = Tick THEN "tick_sleep" ELSE "idle"

\* Where a task goes when CancelledError leaves its coroutine.
AfterCancel(t) == IF t = Tick THEN "off" ELSE "idle"

\* ---------------- try_connect_with_backoff ----------------
\* if gid in _connecting_guilds: return
TcGuard(t) ==
    /\ running = t
    /\ pc[t] = "tc_guard"
    /\ pc' = [pc EXCEPT ![t] = IF InProgress(GUILD_ID) THEN "tc_skipped" ELSE "tc_lock"]
    /\ dropped' = (dropped \/ InProgress(GUILD_ID))
    /\ UNCHANGED <<running, world, serializer, event, frame, last_gave_up>>

\* async with voice_lock: _connecting_guilds.add(gid); attempt = 0
\* asyncio.Lock.acquire returns without suspending when the lock is free and
\* suspends the caller until it is released otherwise.
TcLock(t) ==
    /\ \/ running = t /\ pc[t] = "tc_lock"
       \/ running = NoTask /\ ~closed /\ pc[t] = "tc_wait" /\ voice_lock = NoTask
    /\ IF voice_lock = NoTask
       THEN /\ voice_lock' = t
            /\ _connecting_guilds' = _connecting_guilds \cup {GUILD_ID}
            /\ attempt' = 0
            /\ sleep_for' = 0
            /\ outcome' = "none"
            /\ requests' = NoRequests
            /\ entered_elsewhere' = (IsLive(voice_client)
                                     /\ ~OnChannel(voice_client, VC_CHANNEL_ID))
            /\ reconnect' = TRUE
            /\ connect_result' = "none"
            /\ dropped' = FALSE
            /\ pc' = [pc EXCEPT ![t] = "tc_loop"]
            /\ running' = t
       ELSE /\ pc' = [pc EXCEPT ![t] = "tc_wait"]
            /\ running' = NoTask
            /\ UNCHANGED <<serializer, frame, dropped>>
    /\ UNCHANGED <<world, event, last_gave_up>>

\* while True with the counter set back at the top of every iteration
TcLoopRestarts(t) ==
    /\ running = t
    /\ pc[t] = "tc_loop"
    /\ attempt' = 1
    /\ pc' = [pc EXCEPT ![t] = "tc_resolve"]
    /\ UNCHANGED <<running, world, serializer, event, sleep_for, outcome, requests,
                   entered_elsewhere, reconnect, connect_result, history>>

\* while True: attempt += 1; if attempt > max_attempts: return
TcLoop(t) ==
    /\ running = t
    /\ pc[t] = "tc_loop"
    /\ attempt' = attempt + 1
    /\ IF CeilingReached(attempt')
       THEN /\ outcome' = "gave_up"
            /\ pc' = [pc EXCEPT ![t] = "tc_finally"]
       ELSE /\ outcome' = outcome
            /\ pc' = [pc EXCEPT ![t] = "tc_resolve"]
    /\ UNCHANGED <<running, world, serializer, event, sleep_for, requests,
                   entered_elsewhere, reconnect, connect_result, history>>

\* except Exception, with the guard and the lock given up before the wait
BackoffReleasing(t) ==
    /\ sleep_for' = SleepFor(attempt)
    /\ requests' = [requests EXCEPT !.sleep = @ + 1]
    /\ pc' = [pc EXCEPT ![t] = "tc_sleep"]
    /\ running' = NoTask
    /\ _connecting_guilds' = Discard(_connecting_guilds, GUILD_ID)
    /\ voice_lock' = NoTask

\* except Exception, with the guild taken out of the set before the wait
BackoffUnguarded(t) ==
    /\ sleep_for' = SleepFor(attempt)
    /\ requests' = [requests EXCEPT !.sleep = @ + 1]
    /\ pc' = [pc EXCEPT ![t] = "tc_sleep"]
    /\ running' = NoTask
    /\ _connecting_guilds' = Discard(_connecting_guilds, GUILD_ID)
    /\ voice_lock' = voice_lock

\* except Exception: sleep_for = ...; await asyncio.sleep(sleep_for); continue
\* The task suspends inside the try block, still holding the guard and the lock.
Backoff(t) ==
    /\ sleep_for' = SleepFor(attempt)
    /\ requests' = [requests EXCEPT !.sleep = @ + 1]
    /\ pc' = [pc EXCEPT ![t] = "tc_sleep"]
    /\ running' = NoTask
    /\ UNCHANGED serializer

\* channel = ...; a missing channel taken for a failed attempt
TcResolveRetries(t) ==
    /\ running = t
    /\ pc[t] = "tc_resolve"
    /\ IF ResolveChannel(t) = None
       THEN /\ Backoff(t)
       ELSE /\ pc' = [pc EXCEPT ![t] = "tc_inspect"]
            /\ UNCHANGED <<running, serializer, sleep_for, requests>>
    /\ UNCHANGED <<world, event, attempt, outcome, entered_elsewhere, reconnect,
                   connect_result, history>>

\* channel = ...; if channel is None: return
TcResolve(t) ==
    /\ running = t
    /\ pc[t] = "tc_resolve"
    /\ IF ResolveChannel(t) = None
       THEN /\ outcome' = "not_found"
            /\ pc' = [pc EXCEPT ![t] = "tc_finally"]
       ELSE /\ outcome' = outcome
            /\ pc' = [pc EXCEPT ![t] = "tc_inspect"]
    /\ UNCHANGED <<running, world, serializer, event, attempt, sleep_for, requests,
                   entered_elsewhere, reconnect, connect_result, history>>

\* await channel.connect(timeout=30): the call without the reconnect argument
IssueConnectDefaults(t) ==
    /\ requests' = [requests EXCEPT !.connect = @ + 1]
    /\ pc' = [pc EXCEPT ![t] = "tc_connect"]
    /\ running' = NoTask
    /\ UNCHANGED reconnect

\* await channel.connect(reconnect=False, timeout=30) is issued: the task suspends.
IssueConnect(t) ==
    /\ requests' = [requests EXCEPT !.connect = @ + 1]
    /\ pc' = [pc EXCEPT ![t] = "tc_connect"]
    /\ running' = NoTask
    /\ reconnect' = FALSE

\* The inspection without the move branch: a live handle elsewhere is reconnected.
TcInspectNoMove(t) ==
    /\ running = t
    /\ pc[t] = "tc_inspect"
    /\ dropped' = FALSE
    /\ IF OnChannel(voice_client, ResolveChannel(t))
       THEN /\ outcome' = "already"
            /\ pc' = [pc EXCEPT ![t] = "tc_finally"]
            /\ UNCHANGED <<running, requests, reconnect>>
       ELSE /\ IssueConnect(t)
            /\ outcome' = outcome
    /\ UNCHANGED <<world, serializer, event, attempt, sleep_for, entered_elsewhere,
                   connect_result, last_gave_up>>

\* The inspection without the early return: a handle already on the target is
\* moved there again.
TcInspectNoEarlyReturn(t) ==
    /\ running = t
    /\ pc[t] = "tc_inspect"
    /\ dropped' = FALSE
    /\ IF IsLive(voice_client)
       THEN /\ requests' = [requests EXCEPT !.move = @ + 1]
            /\ pc' = [pc EXCEPT ![t] = "tc_move"]
            /\ running' = NoTask
            /\ UNCHANGED <<outcome, reconnect>>
       ELSE /\ IssueConnect(t)
            /\ outcome' = outcome
    /\ UNCHANGED <<world, serializer, event, attempt, sleep_for, entered_elsewhere,
                   connect_result, last_gave_up>>

\* vc = ...; already on the channel: return; live elsewhere: await vc.move_to(channel);
\* otherwise the fresh connect.
TcInspect(t) ==
    /\ running = t
    /\ pc[t] = "tc_inspect"
    /\ dropped' = FALSE
    /\ IF OnChannel(voice_client, ResolveChannel(t))
       THEN /\ outcome' = "already"
            /\ pc' = [pc EXCEPT ![t] = "tc_finally"]
            /\ UNCHANGED <<running, requests, reconnect>>
       ELSE IF IsLive(voice_client)
       THEN /\ requests' = [requests EXCEPT !.move = @ + 1]
            /\ pc' = [pc EXCEPT ![t] = "tc_move"]
            /\ running' = NoTask
            /\ UNCHANGED <<outcome, reconnect>>
       ELSE /\ IssueConnect(t)
            /\ outcome' = outcome
    /\ UNCHANGED <<world, serializer, event, attempt, sleep_for, entered_elsewhere,
                   connect_result, last_gave_up>>

\* vc.move_to(channel) completes, with no try/except of its own around the move:
\* a failed move is handled like a failed connect.
MoveDoneNoInnerTry(t) ==
    /\ running = NoTask
    /\ ~closed
    /\ pc[t] = "tc_move"
    /\ \E ok \in BOOLEAN :
        IF ok
        THEN /\ voice_client' = Live(VC_CHANNEL_ID)
             /\ outcome' = "moved"
             /\ pc' = [pc EXCEPT ![t] = "tc_finally"]
             /\ running' = t
             /\ UNCHANGED <<serializer, sleep_for, requests>>
        ELSE /\ Backoff(t)
             /\ UNCHANGED <<voice_client, outcome>>
    /\ UNCHANGED <<closed, guild_found, channel_found, event, attempt,
                   entered_elsewhere, reconnect, connect_result, history>>

\* vc.move_to(channel) completes: return on success; on any Exception the same
\* iteration goes on to the fresh connect.
MoveDone(t) ==
    /\ running = NoTask
    /\ ~closed
    /\ pc[t] = "tc_move"
    /\ \E ok \in BOOLEAN :
        IF ok
        THEN /\ voice_client' = Live(VC_CHANNEL_ID)
             /\ outcome' = "moved"
             /\ pc' = [pc EXCEPT ![t] = "tc_finally"]
             /\ running' = t
             /\ UNCHANGED <<requests, reconnect>>
        ELSE /\ IssueConnect(t)
             /\ UNCHANGED <<voice_client, outcome>>
    /\ UNCHANGED <<closed, guild_found, channel_found, serializer, event, attempt,
                   sleep_for, entered_elsewhere, connect_result, history>>

ConnectResults == {"ok", "ClientException", "Exception"}

\* channel.connect completes, with discord.ClientException handled like any
\* other failure.
ConnectDoneNoBenign(t) ==
    /\ running = NoTask
    /\ ~closed
    /\ pc[t] = "tc_connect"
    /\ \E res \in ConnectResults :
        /\ connect_result' = res
        /\ IF res = "ok"
           THEN /\ voice_client' = Live(VC_CHANNEL_ID)
                /\ outcome' = "connected"
                /\ pc' = [pc EXCEPT ![t] = "tc_finally"]
                /\ running' = t
                /\ UNCHANGED <<serializer, sleep_for, requests>>
           ELSE /\ Backoff(t)
                /\ UNCHANGED <<voice_client, outcome>>
    /\ UNCHANGED <<closed, guild_found, channel_found, event, attempt,
                   entered_elsewhere, reconnect, history>>

\* channel.connect completes: return on success and on discord.ClientException;
\* any other Exception leads to the backoff wait.
ConnectDone(t) ==
    /\ running = NoTask
    /\ ~closed
    /\ pc[t] = "tc_connect"
    /\ \E res \in ConnectResults :
        /\ connect_result' = res
        /\ CASE res = "ok" ->
                   /\ voice_client' = Live(VC_CHANNEL_ID)
                   /\ outcome' = "connected"
                   /\ pc' = [pc EXCEPT ![t] = "tc_finally"]
                   /\ running' = t
                   /\ UNCHANGED <<serializer, sleep_for, requests>>
             [] res = "ClientException" ->
                   /\ outcome' = "client_exception"
                   /\ pc' = [pc EXCEPT ![t] = "tc_finally"]
                   /\ running' = t
                   /\ UNCHANGED <<serializer, voice_client, sleep_for, requests>>
             [] res = "Exception" ->
                   /\ Backoff(t)
                   /\ UNCHANGED <<voice_client, outcome>>
    /\ UNCHANGED <<closed, guild_found, channel_found, event, attempt,
                   entered_elsewhere, reconnect, history>>

\* asyncio.sleep(sleep_for) returns, with a return in place of the continue
SleepDoneReturns(t) ==
    /\ running = NoTask
    /\ ~closed
    /\ pc[t] = "tc_sleep"
    /\ pc' = [pc EXCEPT ![t] = "tc_finally"]
    /\ outcome' = "gave_up"
    /\ running' = t
    /\ UNCHANGED <<world, serializer, event, attempt, sleep_for, requests,
                   entered_elsewhere, reconnect, connect_result, history>>

\* asyncio.sleep(sleep_for) returns: continue
SleepDone(t) ==
    /\ running = NoTask
    /\ ~closed
    /\ pc[t] = "tc_sleep"
    /\ pc' = [pc EXCEPT ![t] = "tc_loop"]
    /\ running' = t
    /\ UNCHANGED <<world, serializer, event, frame, history>>

\* finally: _connecting_guilds.discard(gid), with the lock kept past the return
TcFinallyKeepsLock(t) ==
    /\ running = t
    /\ pc[t] = "tc_finally"
    /\ _connecting_guilds' = Discard(_connecting_guilds, GUILD_ID)
    /\ voice_lock' = voice_lock
    /\ pc' = [pc EXCEPT ![t] = "tc_return"]
    /\ UNCHANGED <<running, world, event, frame, history>>

\* finally: _connecting_guilds.discard(gid); then voice_lock is released by
\* the async with.
TcFinally(t) ==
    /\ running = t
    /\ pc[t] = "tc_finally"
    /\ _connecting_guilds' = Discard(_connecting_guilds, GUILD_ID)
    /\ voice_lock' = NoTask
    /\ pc' = [pc EXCEPT ![t] = "tc_return"]
    /\ UNCHANGED <<running, world, event, frame, history>>

\* The call returns to its caller (or CancelledError leaves the task); the
\* locals of a sequence that ran go away with its frame.
TcReturn(t) ==
    /\ running = t
    /\ pc[t] \in {"tc_return", "tc_skipped"}
    /\ running' = NoTask
    /\ IF pc[t] = "tc_return"
       THEN /\ pc' = [pc EXCEPT ![t] = IF outcome = "cancelled" THEN AfterCancel(t)
                                       ELSE AfterCall(t)]
            /\ attempt' = 0
            /\ sleep_for' = 0
            /\ outcome' = "none"
            /\ requests' = NoRequests
            /\ entered_elsewhere' = FALSE
            /\ reconnect' = TRUE
            /\ connect_result' = "none"
            /\ last_gave_up' = (outcome = "gave_up")
            /\ dropped' = FALSE
       ELSE /\ pc' = [pc EXCEPT ![t] = AfterCall(t)]
            /\ UNCHANGED <<frame, history>>
    /\ UNCHANGED <<world, serializer, event>>

\* CancelledError swallowed before the finally block: the task just ends.
CancelledSkipsFinally(t) ==
    /\ running = NoTask
    /\ closed
    /\ pc[t] \in SeqAwaits
    /\ pc' = [pc EXCEPT ![t] = AfterCancel(t)]
    /\ UNCHANGED <<running, world, serializer, event, frame, history>>

\* CancelledError (a BaseException, so no `except Exception` catches it) is
\* raised at the await the sequence is suspended in: the finally block runs.
Cancelled(t) ==
    /\ running = NoTask
    /\ closed
    /\ pc[t] \in SeqAwaits
    /\ outcome' = "cancelled"
    /\ pc' = [pc EXCEPT ![t] = "tc_finally"]
    /\ running' = t
    /\ UNCHANGED <<world, serializer, event, attempt, sleep_for, requests,
                   entered_elsewhere, reconnect, connect_result, history>>

\* ---------------- ensure_voice_task ----------------
\* The loop wakes for its next iteration.
TickFire ==
    /\ running = NoTask
    /\ ~closed
    /\ pc[Tick] = "tick_sleep"
    /\ pc' = [pc EXCEPT ![Tick] = "tick_body"]
    /\ running' = Tick
    /\ UNCHANGED <<world, serializer, event, frame, history>>

\* The tick's test with the channel comparison left out.
TickCallsWhenDown == guild_found /\ ~IsLive(voice_client)

\* The condition under which the body reaches `await try_connect_with_backoff(guild)`.
TickCalls == guild_found /\ ~OnChannel(voice_client, VC_CHANNEL_ID)

TickBody ==
    /\ running = Tick
    /\ pc[Tick] = "tick_body"
    /\ IF TickCalls
       THEN /\ pc' = [pc EXCEPT ![Tick] = "tc_guard"]
            /\ running' = running
       ELSE /\ pc' = [pc EXCEPT ![Tick] = "tick_sleep"]
            /\ running' = NoTask
    /\ UNCHANGED <<world, serializer, event, frame, history>>

\* ---------------- on_ready ----------------
\* Starts the periodic task if it is not running, then awaits asyncio.sleep(1.0).
\* The gateway may fire on_ready again after a reconnect; one on_ready handler
\* and one initial-connect task are alive at a time.
OnReady ==
    /\ running = NoTask
    /\ ~closed
    /\ pc[Ready] = "idle"
    /\ pc[InitialConnect] = "idle"
    /\ pc' = [pc EXCEPT ![Ready] = "ready_sleep",
                        ![Tick] = IF @ = "off" THEN "tick_sleep" ELSE @]
    /\ UNCHANGED <<running, world, serializer, event, frame, history>>

\* guild = bot.get_guild(GUILD_ID); if guild: bot.loop.create_task(try_connect_with_backoff(guild))
ReadyWake ==
    /\ running = NoTask
    /\ ~closed
    /\ pc[Ready] = "ready_sleep"
    /\ pc' = [pc EXCEPT ![Ready] = "idle",
                        ![InitialConnect] = IF guild_found THEN "scheduled" ELSE @]
    /\ UNCHANGED <<running, world, serializer, event, frame, history>>

\* The task created by on_ready gets the event loop.
InitialConnectStart ==
    /\ running = NoTask
    /\ ~closed
    /\ pc[InitialConnect] = "scheduled"
    /\ pc' = [pc EXCEPT ![InitialConnect] = "tc_guard"]
    /\ running' = InitialConnect
    /\ UNCHANGED <<world, serializer, event, frame, history>>

\* ---------------- on_voice_state_update ----------------
\* The gateway dispatches a voice-state notification to a new handler task.
VoiceStateUpdate(h) ==
    /\ running = NoTask
    /\ ~closed
    /\ pc[h] = "idle"
    /\ \E e \in Events : event' = [event EXCEPT ![h] = e]
    /\ pc' = [pc EXCEPT ![h] = "on_update"]
    /\ running' = h
    /\ UNCHANGED <<world, serializer, frame, history>>

\* The second test of the handler without the comparison with VC_CHANNEL_ID
IsUnwantedMoveLoose(e) == e.after # None

\* after.channel is not None and getattr(after.channel, "id", None) != VC_CHANNEL_ID
IsUnwantedMove(e) == e.after # None /\ e.after # VC_CHANNEL_ID

\* The filter of the handler: which wait, if any, the notification starts.
Debounce(e) ==
    IF e.member # BotUser THEN "idle"
    ELSE IF IsDisconnect(e) THEN "debounce_10"
    ELSE IF IsUnwantedMove(e) THEN "debounce_2"
    ELSE "idle"

\* The handler without its asyncio.sleep: the call is made at once.
OnUpdateImmediate(h) ==
    /\ running = h
    /\ pc[h] = "on_update"
    /\ IF Debounce(event[h]) # "idle" /\ guild_found
       THEN /\ pc' = [pc EXCEPT ![h] = "tc_guard"]
            /\ running' = h
       ELSE /\ pc' = [pc EXCEPT ![h] = "idle"]
            /\ running' = NoTask
    /\ event' = [event EXCEPT ![h] = NoEvent]
    /\ UNCHANGED <<world, serializer, frame, history>>

\* The handler runs up to its asyncio.sleep or to its end.
OnUpdate(h) ==
    /\ running = h
    /\ pc[h] = "on_update"
    /\ pc' = [pc EXCEPT ![h] = Debounce(event[h])]
    /\ event' = [event EXCEPT ![h] = NoEvent]
    /\ running' = NoTask
    /\ UNCHANGED <<world, serializer, frame, history>>

\* asyncio.sleep(10) / asyncio.sleep(2) returns; guild = bot.get_guild(GUILD_ID);
\* if guild: await try_connect_with_backoff(guild)
DebounceDone(h) ==
    /\ running = NoTask
    /\ ~closed
    /\ pc[h] \in {"debounce_10", "debounce_2"}
    /\ IF guild_found
       THEN /\ pc' = [pc EXCEPT ![h] = "tc_guard"]
            /\ running' = h
       ELSE /\ pc' = [pc EXCEPT ![h] = "idle"]
            /\ running' = running
    /\ UNCHANGED <<world, serializer, event, frame, history>>

\* ---------------- forcejoin ----------------
\* The owner invokes !forcejoin.
ForceJoinCommand ==
    /\ running = NoTask
    /\ ~closed
    /\ pc[ForceJoin] = "idle"
    /\ pc' = [pc EXCEPT ![ForceJoin] = "forcejoin_body"]
    /\ running' = ForceJoin
    /\ UNCHANGED <<world, serializer, event, frame, history>>

\* guild is None or channel is None: report and return; else call with target_channel.
ForceJoinBody ==
    /\ running = ForceJoin
    /\ pc[ForceJoin] = "forcejoin_body"
    /\ IF guild_found /\ GetChannel # None
       THEN /\ pc' = [pc EXCEPT ![ForceJoin] = "tc_guard"]
            /\ running' = running
       ELSE /\ pc' = [pc EXCEPT ![ForceJoin] = "idle"]
            /\ running' = NoTask
    /\ UNCHANGED <<world, serializer, event, frame, history>>

\* ---------------- the world outside the bot ----------------
\* The connection drops, goes stale, or the bot is moved to another channel.
VoiceChanges(vc) ==
    IF IsLive(vc) THEN VoiceStates \ {vc}
    ELSE IF vc.present THEN {Absent}
    ELSE {}

EnvVoice ==
    /\ running = NoTask
    /\ ~closed
    /\ voice_client' \in VoiceChanges(voice_client)
    /\ UNCHANGED <<pc, running, closed, guild_found, channel_found, serializer, event,
                   frame, history>>

\* The configured channel is deleted or created.
EnvChannel ==
    /\ running = NoTask
    /\ ~closed
    /\ channel_found' = ~channel_found
    /\ UNCHANGED <<pc, running, closed, voice_client, guild_found, serializer, event,
                   frame, history>>

\* The guild enters or leaves the client's cache.
EnvGuild ==
    /\ running = NoTask
    /\ ~closed
    /\ guild_found' = ~guild_found
    /\ UNCHANGED <<pc, running, closed, voice_client, channel_found, serializer, event,
                   frame, history>>

\* bot.run() ends: the event loop cancels every task that is left.  A task
\* suspended outside the guarded section ends there and then; the one inside
\* it unwinds through Cancelled.
Shutdown ==
    /\ running = NoTask
    /\ ~closed
    /\ closed' = TRUE
    /\ pc' = [t \in Tasks |-> IF pc[t] \in Awaits \ SeqAwaits THEN AfterCancel(t)
                              ELSE pc[t]]
    /\ UNCHANGED <<running, voice_client, guild_found, channel_found, serializer,
                   event, frame, history>>

Next ==
    \/ \E t \in Callers :
        \/ TcGuard(t)
        \/ TcLock(t)
        \/ TcLoop(t)
        \/ TcResolve(t)
        \/ TcInspect(t)
        \/ MoveDone(t)
        \/ ConnectDone(t)
        \/ SleepDone(t)
        \/ TcFinally(t)
        \/ TcReturn(t)
        \/ Cancelled(t)
    \/ TickFire
    \/ TickBody
    \/ OnReady
    \/ ReadyWake
    \/ InitialConnectStart
    \/ \E h \in Handlers : VoiceStateUpdate(h) \/ OnUpdate(h) \/ DebounceDone(h)
    \/ ForceJoinCommand
    \/ ForceJoinBody
    \/ EnvVoice
    \/ EnvChannel
    \/ EnvGuild
    \/ Shutdown

Spec == Init /\ [][Next]_vars

\* ---------------- the bot left to itself, under a fair event loop ----------------
\* A step of the task that holds the event loop: it runs on to its next await.
RunningStep ==
    \/ \E t \in Callers :
        \/ TcGuard(t)
        \/ TcLock(t)
        \/ TcLoop(t)
        \/ TcResolve(t)
        \/ TcInspect(t)
        \/ TcFinally(t)
        \/ TcReturn(t)
    \/ TickBody
    \/ ForceJoinBody

\* The event loop resumes the sequence at the await it is suspended in.
Resume ==
    \E t \in Callers : MoveDone(t) \/ ConnectDone(t) \/ SleepDone(t)

\* channel.connect returns normally.
ConnectOk == \E t \in Callers : ConnectDone(t) /\ connect_result' = "ok"

\* The program while it is not shut down and no voice-state notification
\* arrives: the periodic task, on_ready with its initial connect, !forcejoin,
\* and the world outside.
LiveNext ==
    \/ RunningStep
    \/ Resume
    \/ TickFire
    \/ OnReady
    \/ ReadyWake
    \/ InitialConnectStart
    \/ ForceJoinCommand
    \/ EnvVoice
    \/ EnvChannel
    \/ EnvGuild

\* The event loop runs the task that holds it up to its next await, resumes a
\* sequence whose timer or request is due, and lets the periodic task tick.
\* Nothing is assumed about the world outside, about on_ready or about commands.
LiveSpec ==
    /\ Init
    /\ [][LiveNext]_vars
    /\ WF_vars(RunningStep)
    /\ SF_vars(Resume)
    /\ SF_vars(TickFire)

\* ---------------- properties ----------------
\* The tasks inside the guarded section, and the guard being free.
Holders == {t \in Callers : pc[t] \in Guarded}
Released == GUILD_ID \notin _connecting_guilds /\ voice_lock = NoTask
\* Positions at which a sequence resolves, inspects, or has a request in flight.
Working == {"tc_resolve", "tc_inspect", "tc_move", "tc_connect"}

\* C1: whatever the interleaving of the tick, the notifications, the initial
\* connect and forcejoin, at most one task is inside the guarded section, so
\* at most one resolve/connect/move is outstanding at any instant.
C1_OneSequenceAtATime ==
    /\ Cardinality(Holders) <= 1
    /\ Cardinality({t \in Callers : pc[t] \in Working}) <= 1

\* A second trigger reaches the guard while a sequence has a request in flight.
C1_Witness ==
    \E t, u \in Callers :
        /\ t # u
        /\ pc[t] \in {"tc_move", "tc_connect"}
        /\ pc[u] = "tc_guard"

\* C2: once the guarded section is left, by whichever path, the guild id is out
\* of _connecting_guilds and voice_lock is free; a trigger that passes the
\* membership test finds the lock free and enters.
C2_GuardReleasedOnExit ==
    /\ \A t \in Callers : pc[t] = "tc_return" =>
          /\ Released
          /\ outcome \in {"connected", "moved", "already", "not_found",
                          "client_exception", "gave_up", "cancelled"}
    /\ Holders = {} => Released
    /\ \A t \in Callers : pc[t] = "tc_lock" => voice_lock = NoTask

\* A sequence cancelled during a backoff sleep has left the guarded section.
C2_Witness ==
    \E t \in Callers :
        /\ pc[t] = "tc_return"
        /\ outcome = "cancelled"
        /\ requests.sleep = requests.connect
        /\ requests.sleep >= 1

\* min(base * 2^(k-1), max) with base = 2 and max = 60
ClaimedDelay(k) ==
    LET d == 2 * (2 ^ (k - 1))
    IN  IF d < 60 THEN d ELSE 60

\* C3: the wait after the k-th failed attempt of a sequence is
\* min(2 * 2^(k-1), 60) seconds, i.e. 2, 4, 8, 16, 32, 60, ..., and the waits of
\* one sequence never decrease.
C3_BackoffDelay ==
    /\ [](\A t \in Callers : pc[t] = "tc_sleep" =>
            /\ requests.sleep = attempt
            /\ sleep_for = ClaimedDelay(requests.sleep)
            /\ requests.sleep <= 6 => sleep_for = <<2, 4, 8, 16, 32, 60>>[requests.sleep])
    /\ [][(voice_lock # NoTask /\ voice_lock' = voice_lock) => sleep_for' >= sleep_for]_vars

\* The sixth consecutive failure: the first wait the cap cuts down.
C3_Witness ==
    \E t \in Callers : pc[t] = "tc_sleep" /\ requests.sleep = 6 /\ sleep_for = 60

\* C4: after max_attempts failed attempts the sequence gives up: nothing is
\* resolved or requested any more (so at most max_attempts connects per
\* sequence), the guard is released, and every sequence, also the one after a
\* give-up, starts at attempt 1 with the base delay.
C4_GiveUpAtCeiling ==
    /\ requests.connect <= max_attempts
    /\ \A t \in Callers : pc[t] \in Working =>
          requests.sleep < max_attempts /\ attempt <= max_attempts
    /\ outcome = "gave_up" =>
          /\ attempt = max_attempts + 1
          /\ requests.connect = max_attempts
          /\ requests.sleep = max_attempts
    /\ \A t \in Callers : (pc[t] = "tc_return" /\ outcome = "gave_up") => Released
    /\ \A t \in Callers : (pc[t] \in Working /\ requests.sleep = 0) => attempt = 1
    /\ \A t \in Callers : (pc[t] = "tc_sleep" /\ requests.sleep = 1) =>
          attempt = 1 /\ sleep_for = base_sleep

\* The sequence after a give-up is in its first backoff wait.
C4_Witness ==
    /\ last_gave_up
    /\ \E t \in Callers : pc[t] = "tc_sleep" /\ attempt = 1 /\ sleep_for = base_sleep

\* C5: when the channel lookup yields nothing, on the first iteration or on a
\* retry, that result leaves the attempt counter alone, schedules no wait,
\* issues no connect or move, and the sequence ends with the guard released.
C5_TargetNotFound ==
    /\ [][\A t \in Callers :
            /\ (pc[t] = "tc_resolve" /\ ResolveChannel(t) = None /\ pc'[t] # pc[t]) =>
                  /\ pc'[t] = "tc_finally"
                  /\ outcome' = "not_found"
                  /\ attempt' = attempt
                  /\ sleep_for' = sleep_for
                  /\ requests' = requests
            /\ (pc[t] = "tc_finally" /\ outcome = "not_found" /\ pc'[t] # pc[t]) =>
                  /\ pc'[t] = "tc_return"
                  /\ Released'
                  /\ attempt' = attempt
                  /\ requests' = requests]_vars
    /\ [](\A t \in Callers : (pc[t] = "tc_return" /\ outcome = "not_found") =>
            /\ Released
            /\ requests.sleep = attempt - 1
            /\ requests.connect = attempt - 1)

\* The channel is gone when a sequence retries after a backoff.
C5_Witness ==
    \E t \in Callers : pc[t] = "tc_return" /\ outcome = "not_found" /\ attempt >= 2

\* Notifications that must not trigger anything.
NoLoss(e) ==
    \/ e.member # BotUser
    \/ e.after = VC_CHANNEL_ID
    \/ (e.before = None /\ e.after = None)

\* C6: a notification whose new channel is the configured one, one for another
\* member, or one with no channel before and after, starts no debounce wait
\* and no call of try_connect_with_backoff.
C6_NoSpuriousTrigger ==
    [][\A h \in Handlers :
        /\ (pc[h] = "on_update" /\ NoLoss(event[h]) /\ pc'[h] # pc[h]) => pc'[h] = "idle"
        /\ (pc'[h] \in {"debounce_10", "debounce_2"} /\ pc'[h] # pc[h]) =>
              pc[h] = "on_update" /\ ~NoLoss(event[h])
        /\ (pc'[h] = "tc_guard" /\ pc'[h] # pc[h]) =>
              pc[h] \in {"debounce_10", "debounce_2"}]_vars

\* The handler filters the bot's own move from another channel onto the target.
C6_Witness ==
    \E h \in Handlers :
        /\ pc[h] = "on_update"
        /\ event[h] = [member |-> BotUser, before |-> OtherChannel, after |-> VC_CHANNEL_ID]

\* C7 as claimed: a sequence entered with the handle live on another channel
\* ends with exactly one move and no connect issued (sequences that end on a
\* missing channel or by cancellation are left aside).
C7_OneMoveNoConnect ==
    \A t \in Callers :
        (/\ pc[t] = "tc_return"
         /\ entered_elsewhere
         /\ outcome \notin {"not_found", "cancelled"}) =>
            requests.move = 1 /\ requests.connect = 0

\* C7 as amended: a sequence entered with the handle live on another channel,
\* whose target resolves, issues a move before anything else, and if that first
\* move succeeds it ends with exactly one move and no connect issued.
C7_MoveFirst ==
    /\ \A t \in Callers : (pc[t] \in SeqAwaits /\ entered_elsewhere) =>
          /\ requests.move >= 1
          /\ pc[t] = "tc_move" /\ attempt = 1 => requests.connect = 0
    /\ \A t \in Callers :
          (pc[t] = "tc_return" /\ entered_elsewhere /\ outcome = "moved" /\ attempt = 1) =>
              requests = [connect |-> 0, move |-> 1, sleep |-> 0]

\* The first move of such a sequence succeeded.
C7_Witness ==
    \E t \in Callers :
        pc[t] = "tc_return" /\ entered_elsewhere /\ outcome = "moved" /\ attempt = 1

\* C8: a call made while a sequence is in progress returns at once: nothing is
\* resolved or requested, no wait is scheduled, the lock is not waited for, and
\* the set, the lock and the in-flight sequence's locals are untouched; a call
\* on an idle guild enters.
C8_SkipIsNoOp ==
    [][\A t \in Callers :
        /\ (pc[t] = "tc_guard" /\ GUILD_ID \in _connecting_guilds /\ pc'[t] # pc[t]) =>
              /\ pc'[t] = "tc_skipped"
              /\ UNCHANGED <<serializer, frame, voice_client>>
        /\ (pc[t] = "tc_skipped" /\ pc'[t] # pc[t]) =>
              /\ pc'[t] \in {"idle", "tick_sleep"}
              /\ \A u \in Callers \ {t} : pc'[u] = pc[u]
              /\ UNCHANGED <<serializer, frame, voice_client>>
        /\ (pc[t] = "tc_guard" /\ GUILD_ID \notin _connecting_guilds /\ pc'[t] # pc[t]) =>
              pc'[t] = "tc_lock"
        /\ (pc[t] = "tc_lock" /\ pc'[t] # pc[t]) =>
              /\ pc'[t] = "tc_loop"
              /\ voice_lock' = t
              /\ GUILD_ID \in _connecting_guilds']_vars

\* A call was skipped while the sequence in progress sleeps between attempts.
C8_Witness ==
    \E t, u \in Callers :
        pc[t] = "tc_skipped" /\ pc[u] = "tc_sleep" /\ attempt >= 1

\* C9: from entry to the terminal outcome, backoff sleeps included, the guild
\* id stays in _connecting_guilds (and the lock with the sequence).
C9_GuardHeldThroughout ==
    \A t \in Callers : pc[t] \in Guarded =>
        GUILD_ID \in _connecting_guilds /\ voice_lock = t

\* A trigger arrives during the second backoff sleep of a sequence.
C9_Witness ==
    \E t, u \in Callers :
        pc[t] = "tc_sleep" /\ requests.sleep = 2 /\ pc[u] = "tc_guard"

\* C10: inside a sequence the counter goes up by one at every loop iteration
\* and nowhere else, and never goes down; it is zero only in a sequence that has
\* just begun.
C10_AttemptMonotone ==
    /\ [][/\ (voice_lock # NoTask /\ voice_lock' = voice_lock) =>
                attempt' \in {attempt, attempt + 1}
          /\ \A t \in Callers :
                /\ (pc[t] = "tc_loop" /\ pc'[t] # pc[t]) => attempt' = attempt + 1
                /\ (pc[t] \in Guarded \ {"tc_loop"} /\ pc'[t] \in Guarded) =>
                      attempt' = attempt
          /\ attempt' < attempt => voice_lock = NoTask]_vars
    /\ [](\A t \in Callers : pc[t] \in Guarded \ {"tc_loop"} => attempt >= 1)
    /\ [](\A t \in Callers : (pc[t] \in Guarded /\ attempt = 0) =>
            pc[t] = "tc_loop" /\ requests = NoRequests /\ sleep_for = 0)

\* A sequence in its third attempt.
C10_Witness ==
    \E t \in Callers : pc[t] = "tc_connect" /\ attempt = 3 /\ requests.sleep = 2

\* C11: when the move request of a sequence ends, either the same loop
\* iteration goes on to a connect request (the failed move: the counter is not
\* incremented and no wait is scheduled in between), or the sequence ends as
\* moved, on the target, without any connect issued by that iteration; a
\* sequence that ended as moved at its first attempt issued no connect at all.
C11_MoveFallsThrough ==
    /\ [][\A t \in Callers : (pc[t] = "tc_move" /\ pc'[t] # pc[t]) =>
            \/ /\ pc'[t] = "tc_connect"
               /\ attempt' = attempt
               /\ requests' = [requests EXCEPT !.connect = @ + 1]
               /\ sleep_for' = sleep_for
               /\ outcome' = outcome
               /\ UNCHANGED <<serializer, voice_client>>
            \/ /\ pc'[t] = "tc_finally"
               /\ outcome' = "moved"
               /\ OnChannel(voice_client', VC_CHANNEL_ID)
               /\ UNCHANGED <<serializer, attempt, requests, sleep_for>>
            \/ /\ closed
               /\ pc'[t] = "tc_finally"
               /\ outcome' = "cancelled"
               /\ UNCHANGED <<serializer, attempt, requests, sleep_for>>]_vars
    /\ [](\A t \in Callers : (pc[t] \in Guarded /\ outcome = "moved") =>
            /\ pc[t] = "tc_finally"
            /\ attempt = 1 => requests = [connect |-> 0, move |-> 1, sleep |-> 0])

\* The first move of a sequence failed and the same iteration asked to connect.
C11_Witness ==
    \E t \in Callers :
        /\ pc[t] = "tc_connect"
        /\ attempt = 1
        /\ requests = [connect |-> 1, move |-> 1, sleep |-> 0]
        /\ voice_client = Live(OtherChannel)

\* C12: when the handle is absent or not connected and the target channel
\* resolves, the request issued is a connect and never a move; every connect
\* request is made with reconnect=False.
C12_ConnectWhenNotLive ==
    /\ [][\A t \in Callers :
            /\ (pc[t] = "tc_resolve" /\ ResolveChannel(t) # None /\ pc'[t] # pc[t]) =>
                  pc'[t] = "tc_inspect" /\ requests' = requests
            /\ (pc[t] = "tc_inspect" /\ ~IsLive(voice_client) /\ pc'[t] # pc[t]) =>
                  /\ pc'[t] = "tc_connect"
                  /\ requests' = [requests EXCEPT !.connect = @ + 1]
            /\ requests'.move > requests.move =>
                  voice_client.present /\ voice_client.connected]_vars
    /\ [](\A t \in Callers : pc[t] = "tc_connect" => reconnect = FALSE)
    /\ [](\A t \in Callers : (pc[t] \in Guarded /\ requests.connect > 0) =>
            reconnect = FALSE)

\* A connect request is pending on a stale handle, no move was issued.
C12_Witness ==
    \E t \in Callers :
        /\ pc[t] = "tc_connect"
        /\ voice_client = Stale
        /\ requests.move = 0
        /\ requests.connect >= 1

\* C13: an inspection (of the first iteration or of a retry) that finds the
\* handle live on the target ends the sequence as a success: no connect or move
\* is issued, no wait is scheduled, and the guard is released when it returns.
C13_AlreadyOnTarget ==
    /\ [][\A t \in Callers :
            /\ (/\ pc[t] = "tc_inspect"
                /\ OnChannel(voice_client, ResolveChannel(t))
                /\ pc'[t] # pc[t]) =>
                  /\ pc'[t] = "tc_finally"
                  /\ outcome' = "already"
                  /\ UNCHANGED <<requests, sleep_for, attempt, voice_client>>
            /\ (pc[t] = "tc_finally" /\ outcome = "already" /\ pc'[t] # pc[t]) =>
                  /\ pc'[t] = "tc_return"
                  /\ GUILD_ID \notin _connecting_guilds'
                  /\ voice_lock' = NoTask
                  /\ UNCHANGED <<requests, sleep_for, attempt>>]_vars
    /\ [](\A t \in Callers : (pc[t] = "tc_return" /\ outcome = "already") =>
            Released /\ requests.sleep = attempt - 1)

\* A retry found the handle on the target: the sequence returned as a success.
C13_Witness ==
    \E t \in Callers :
        /\ pc[t] = "tc_return"
        /\ outcome = "already"
        /\ attempt >= 2
        /\ Released

\* C14: a connect request that fails with discord.ClientException ends the
\* sequence at once as a success: no wait is scheduled, nothing more is
\* requested, and the guard is released when it returns; a backoff wait and a
\* retry follow a connect request only when it failed in another way.
C14_ClientExceptionBenign ==
    /\ [][\A t \in Callers :
            /\ (pc[t] = "tc_connect" /\ pc'[t] # pc[t] /\ outcome' # "cancelled") =>
                  /\ connect_result' \in ConnectResults
                  /\ connect_result' = "ClientException" =>
                        /\ pc'[t] = "tc_finally"
                        /\ outcome' = "client_exception"
                        /\ UNCHANGED <<requests, sleep_for, attempt, voice_client,
                                       serializer>>
                  /\ connect_result' = "Exception" <=> pc'[t] = "tc_sleep"
                  /\ pc'[t] = "tc_sleep" =>
                        /\ requests' = [requests EXCEPT !.sleep = @ + 1]
                        /\ sleep_for' = SleepFor(attempt)
            /\ (pc[t] = "tc_finally" /\ outcome = "client_exception"
                    /\ pc'[t] # pc[t]) =>
                  /\ pc'[t] = "tc_return"
                  /\ GUILD_ID \notin _connecting_guilds'
                  /\ voice_lock' = NoTask
                  /\ UNCHANGED <<requests, sleep_for, attempt>>
            /\ (pc[t] = "tc_sleep" /\ pc'[t] # pc[t] /\ outcome' # "cancelled") =>
                  pc'[t] = "tc_loop"]_vars
    /\ [](\A t \in Callers : pc[t] = "tc_sleep" => connect_result = "Exception")
    /\ [](\A t \in Callers : (pc[t] \in Guarded /\ connect_result = "ClientException") =>
            pc[t] = "tc_finally" /\ outcome \in {"client_exception"})
    /\ [](\A t \in Callers : (pc[t] = "tc_return" /\ outcome = "client_exception") =>
            Released /\ requests.sleep = attempt - 1)

\* The second connect request of a sequence failed with ClientException and the
\* sequence returned.
C14_Witness ==
    \E t \in Callers :
        /\ pc[t] = "tc_return"
        /\ outcome = "client_exception"
        /\ connect_result = "ClientException"
        /\ requests.connect = 2
        /\ requests.sleep = 1
        /\ Released

\* C15: a tick calls try_connect_with_backoff exactly when the guild is found
\* and the handle is absent, not connected, or connected to a channel other than
\* the target; a tick that finds the handle live on the target (or no guild)
\* goes back to sleep and changes nothing.
C15_TickTrigger ==
    [][(pc[Tick] = "tick_body" /\ pc'[Tick] # pc[Tick]) =>
          /\ pc'[Tick] \in {"tc_guard", "tick_sleep"}
          /\ pc'[Tick] = "tc_guard" <=>
                /\ guild_found
                /\ \/ ~voice_client.present
                   \/ ~voice_client.connected
                   \/ voice_client.channel # VC_CHANNEL_ID
          /\ (voice_client = Live(VC_CHANNEL_ID) \/ ~guild_found) =>
                /\ pc'[Tick] = "tick_sleep"
                /\ \A u \in Tasks \ {Tick} : pc'[u] = pc[u]
          /\ UNCHANGED <<world, serializer, frame>>]_vars

\* A tick found the handle live on another channel and makes the call.
C15_Witness ==
    /\ pc[Tick] = "tc_guard"
    /\ running = Tick
    /\ guild_found
    /\ voice_client = Live(OtherChannel)

\* C16: a handler of a voice-state notification reaches the guard check of
\* try_connect_with_backoff only out of a completed debounce wait: the wait of
\* 10 s is started by a disconnect of the bot, the wait of 2 s by a move of the
\* bot to a channel other than the target; the handler is suspended during the
\* wait, touches nothing before it, and the guard check and the inspection act
\* on the set and the handle as they are after the wait.
C16_DebounceFirst ==
    [][\A h \in Handlers :
        /\ (pc[h] = "on_update" /\ pc'[h] # pc[h]) =>
              /\ pc'[h] \in {"idle", "debounce_10", "debounce_2"}
              /\ running' = NoTask
              /\ UNCHANGED <<serializer, frame, voice_client>>
              /\ pc'[h] = "debounce_10" <=>
                    /\ event[h].member = BotUser
                    /\ event[h].before # None /\ event[h].after = None
              /\ pc'[h] = "debounce_2" <=>
                    /\ event[h].member = BotUser
                    /\ event[h].after \notin {None, VC_CHANNEL_ID}
        /\ (pc'[h] \in {"tc_guard", "tc_lock", "tc_skipped"} /\ pc[h] \notin
                {"tc_guard", "tc_lock", "tc_skipped"}) =>
              /\ pc[h] \in {"debounce_10", "debounce_2"}
              /\ pc'[h] = "tc_guard"
              /\ running = NoTask /\ running' = h
              /\ guild_found
        /\ (pc[h] \in {"debounce_10", "debounce_2"} /\ pc'[h] # pc[h]) =>
              /\ pc'[h] \in {"tc_guard", "idle"}
              /\ UNCHANGED <<serializer, frame, voice_client>>
        /\ (pc[h] = "tc_guard" /\ pc'[h] # pc[h]) =>
              pc'[h] = IF GUILD_ID \in _connecting_guilds THEN "tc_skipped"
                       ELSE "tc_lock"
        /\ (pc[h] = "tc_inspect" /\ pc'[h] # pc[h]) =>
              (pc'[h] = "tc_finally" <=> voice_client = Live(ResolveChannel(h)))]_vars

\* The bot was brought back to the target during a handler's debounce wait: the
\* handler's sequence finds it there at its first inspection and requests nothing.
C16_Witness ==
    \E h \in Handlers :
        /\ pc[h] = "tc_return"
        /\ outcome = "already"
        /\ attempt = 1
        /\ requests = NoRequests

\* C17 as claimed: while a sequence is suspended in a backoff wait (and the
\* process is not shutting down), the periodic task, once started, goes on
\* ticking: it waits for its next tick, or runs a tick that the guard folds;
\* this whichever task runs the sequence.
C17_TickerRunsDuringBackoff ==
    \A t \in Callers :
        (pc[t] = "tc_sleep" /\ ~closed /\ pc[Tick] # "off") =>
            pc[Tick] \in {"tick_sleep", "tick_body", "tc_guard", "tc_skipped"}

\* The guild and the target channel exist and the bot is not connected to the
\* target channel.
Down == guild_found /\ channel_found /\ ~OnChannel(voice_client, VC_CHANNEL_ID)

\* A connect or move request is in flight.
Issued == \E t \in Callers : pc[t] \in {"tc_connect", "tc_move"}

C19_LockMirrorsGuard ==
    /\ running = NoTask =>
          (voice_lock # NoTask <=> GUILD_ID \in _connecting_guilds)
    /\ _connecting_guilds \subseteq {GUILD_ID}
    /\ \A t \in Callers :
          /\ pc[t] # "tc_wait"
          /\ pc[t] = "tc_lock" =>
                /\ running = t
                /\ voice_lock = NoTask
                /\ GUILD_ID \notin _connecting_guilds
          /\ voice_lock = t => pc[t] \in Guarded

\* Everything is suspended: a sequence holds the lock and the guard in its
\* second backoff wait while a notification handler waits out its debounce.
C19_Witness ==
    /\ running = NoTask
    /\ voice_lock # NoTask
    /\ GUILD_ID \in _connecting_guilds
    /\ pc[voice_lock] = "tc_sleep"
    /\ requests.sleep >= 2
    /\ \E u \in Callers \ {voice_lock} : pc[u] \in {"debounce_10", "debounce_2"}

\* C20 as claimed: a sequence does not end with a skipped call behind it that
\* it has not answered by one more inspection of the handle (sequences ended by
\* the success of a pending request, by a missing channel or by cancellation
\* are left aside: the claim is stated for those that give up).
C20_DropAlwaysCovered ==
    \A t \in Callers :
        (pc[t] = "tc_return" /\ outcome = "gave_up") => ~dropped

\* C20 as amended: a call skipped during a backoff wait that follows an attempt
\* before the last is answered: unless the process shuts down, the wait ends in
\* a new iteration, which resolves the channel and, if it is found, inspects
\* the handle and issues a move or a connect when it is not on the target.  A
\* sequence ends with an unanswered skipped call behind it only when a pending
\* request ended it, when the channel was gone, on shutdown, or when the call
\* was skipped after the inspection of the last attempt.
C20_DropCoveredIfRetried ==
    /\ [][\A t \in Callers :
            /\ (pc[t] = "tc_sleep" /\ pc'[t] # pc[t]) =>
                  \/ pc'[t] = "tc_loop" /\ dropped' = dropped /\ attempt' = attempt
                  \/ closed /\ pc'[t] = "tc_finally" /\ outcome' = "cancelled"
            /\ (pc[t] = "tc_loop" /\ attempt < max_attempts /\ pc'[t] # pc[t]) =>
                  pc'[t] = "tc_resolve" /\ dropped' = dropped
            /\ (pc[t] = "tc_resolve" /\ ResolveChannel(t) # None /\ pc'[t] # pc[t]) =>
                  pc'[t] = "tc_inspect" /\ dropped' = dropped
            /\ (pc[t] = "tc_inspect" /\ pc'[t] # pc[t]) =>
                  /\ ~dropped'
                  /\ ~OnChannel(voice_client, ResolveChannel(t)) =>
                        /\ pc'[t] \in {"tc_move", "tc_connect"}
                        /\ requests'.connect + requests'.move
                              = requests.connect + requests.move + 1]_vars
    /\ [](\A t \in Callers : (pc[t] \in {"tc_finally", "tc_return"} /\ dropped) =>
            \/ outcome \in {"connected", "client_exception", "moved"}
            \/ outcome = "not_found"
            \/ outcome = "cancelled" /\ closed
            \/ /\ outcome = "gave_up"
               /\ attempt = max_attempts + 1
               /\ requests.sleep = max_attempts)

\* A call was skipped during a wait before the last one; the sequence is about
\* to inspect the handle again and finds it off the target.
C20_Witness ==
    \E t \in Callers :
        /\ pc[t] = "tc_inspect"
        /\ dropped
        /\ attempt \in 2..max_attempts
        /\ ~OnChannel(voice_client, ResolveChannel(t))

====
